---- MODULE Spec2Model ----
(***************************************************************************)
(* PhotoClassify: the collision-safe placement of photographs              *)
(* (photoclassify/copies.py), the naming scheme it renames with            *)
(* (photoclassify/photopath.py), the content comparators and the twin      *)
(* resolver (photoclassify/diff.py), and the duplicate and idle queries of *)
(* the catalog and its singleton (photoclassify/catalog.py), and the       *)
(* last-date marker (photoclassify/config.py).                             *)
(*                                                                         *)
(* A file name is a sequence of one-character strings, a path is a record  *)
(* [parent, name], a file's content is a sequence of bytes, and a          *)
(* directory tree is a function from the paths that exist to contents.     *)
(***************************************************************************)
EXTENDS Integers, Sequences, FiniteSets, TLC

VARIABLES
    imgdates,     \* copies.py: the sequence of (origin_fpath, datestamp) items of the dict
    files_orig,   \* the origin tree: origin path -> content
    dest,         \* the destination tree: destination path -> content
    task,         \* per origin file: the position and locals of its _copy_file_task
    result,       \* copies.py: CopyResult
    faulty,       \* whether the environment may fail filesystem calls in this behaviour
    destAtStart,  \* history: per origin file, the destination tree when its task started
    run,          \* 1 for the first copy_photographs run, 2 for the re-run
    destAfterRun1, \* history: the destination tree the first run left
    parallel,     \* copies.py:301 copy_photographs' parameter: process pool or plain loop
    tw,           \* diff.py: the state of the twin resolvers
    cmp,          \* diff.py: one call of a content comparator on two files
    pn,           \* photopath.py: a file name, its PhotoPath and the PhotoPath of its re-encoding
    cat,          \* catalog.py: the tables of the Catalog and what its last call returned
    hc,           \* diff.py: the lru_cache of calculate_file_hash over a sequence of compare_hash calls
    db,           \* catalog.py: the Catalog singleton and the sqlite3 connections of the process
    destInit,     \* history: the destination tree the run started from
    cp            \* copies.py: copy_photographs around the copy loop, and the last-date marker file

vars == <<imgdates, files_orig, dest, task, result, faulty, destAtStart, run,
          destAfterRun1, parallel, tw, cmp, pn, cat, hc, db, destInit, cp>>

-----------------------------------------------------------------------------
(* Bounds of the model *)

\* number of origin files handed to one copy run
NumOrigin == 2
\* destination directories start with 0..MaxShort occupied slots A, A_x01, ...
MaxShort == 3
\* ... or with MAX_RENAME_ALLOWED + (0..MaxOver) occupied slots
MaxOver == 1
\* under the process pool, destination directories start with 0..MaxParSlots slots
MaxParSlots == 2
\* the twin resolvers are given 1..MaxTwOrigin origin and 0..MaxTwDest destination files
MaxTwOrigin == 2
MaxTwDest == 2
\* the files handed to a content comparator hold 0..MaxCmpLen bytes
MaxCmpLen == 2
\* a file name carries 0..MaxTokens counter-like tokens, and next is applied
\* 0..MaxNext times to its PhotoPath
MaxTokens == 1
MaxNext == 1
\* Catalog.add is called up to MaxAdds times with 1..MaxEntries entries, on a
\* database of 0..MaxDirs directories
MaxAdds == 2
MaxEntries == 2
MaxDirs == 2
\* compare_hash is called up to MaxHashCalls times in one process
MaxHashCalls == 2
\* Catalog(...) is constructed up to MaxConstructions times in one process
MaxConstructions == 3

-----------------------------------------------------------------------------
(* pathlib.PurePath.name / .stem / .suffix, as photopath.py uses them *)

Min(a, b) == IF a < b THEN a ELSE b

\* str.rfind: the last (1-based) index of ch in s, 0 when absent
RFind(s, ch) ==
    LET I == {i \in 1..Len(s) : s[i] = ch}
    IN IF I = {} THEN 0 ELSE CHOOSE i \in I : \A j \in I : j <= i

\* the suffix starts at the last dot, unless that dot is the first or the last character
PathSuffix(nm) ==
    LET i == RFind(nm, ".")
    IN IF 1 < i /\ i < Len(nm) THEN SubSeq(nm, i, Len(nm)) ELSE <<>>

PathStem(nm) ==
    LET i == RFind(nm, ".")
    IN IF 1 < i /\ i < Len(nm) THEN SubSeq(nm, 1, i - 1) ELSE nm

\* parent / name
Join(parent, nm) == [parent |-> parent, name |-> nm]

-----------------------------------------------------------------------------
(* photopath.py: PhotoPath *)

HexDigits == <<"0", "1", "2", "3", "4", "5", "6", "7", "8", "9",
               "a", "b", "c", "d", "e", "f">>

IsHex(ch) == \E i \in 1..16 : HexDigits[i] = ch

\* int(ch, 16) of one lowercase hex digit
HexVal(ch) == (CHOOSE i \in 1..16 : HexDigits[i] = ch) - 1

\* hex(n)[2:]: the lowercase hex digits of n, no leading zero
RECURSIVE Hex(_)
Hex(n) == IF n < 16 THEN <<HexDigits[n + 1]>>
          ELSE Hex(n \div 16) \o <<HexDigits[(n % 16) + 1]>>

\* format spec ">02s": right-aligned in width 2, filled with "0"; never truncates
PadHex(s) == IF Len(s) >= 2 THEN s ELSE <<"0">> \o s

\* re.search(r"_x([0-9a-f]{2})$", stem)
HexInc(stem) ==
    LET n == Len(stem)
    IN /\ n >= 4
       /\ stem[n - 3] = "_"
       /\ stem[n - 2] = "x"
       /\ IsHex(stem[n - 1])
       /\ IsHex(stem[n])

from_path(p) ==
    LET stem == PathStem(p.name)
        n == Len(stem)
    IN [parent  |-> p.parent,
        stem    |-> IF HexInc(stem) THEN SubSeq(stem, 1, n - 4) ELSE stem,
        suffix  |-> PathSuffix(p.name),
        counter |-> IF HexInc(stem)
                    THEN 16 * HexVal(stem[n - 1]) + HexVal(stem[n])
                    ELSE 0]

pp_name(pp) == pp.stem \o <<"_", "x">> \o PadHex(Hex(pp.counter)) \o pp.suffix

\* mutant: the counter skips a value
pp_next_skips(pp) == [pp EXCEPT !.counter = @ + 2]

pp_next(pp) == [pp EXCEPT !.counter = @ + 1]

pp_path(pp) == Join(pp.parent, pp_name(pp))

same_name(a, b) == <<a.stem, a.suffix>> = <<b.stem, b.suffix>>

-----------------------------------------------------------------------------
(* diff.py: compare_stream *)

CHUNK_SIZE == 8192

\* mutant: only the first read returns bytes
Read_first_chunk_only(c, pos, n) ==
    IF pos = 0 THEN SubSeq(c, 1, Min(n, Len(c))) ELSE <<>>

\* f.read(n) at offset pos: at most n bytes, <<>> at end of file
Read(c, pos, n) == SubSeq(c, pos + 1, Min(pos + n, Len(c)))

RECURSIVE StreamLoop(_, _, _, _)
StreamLoop(c1, c2, pos, n) ==
    LET chunk1 == Read(c1, pos, n)
        chunk2 == Read(c2, pos, n)
    IN IF chunk1 # chunk2 THEN FALSE
       ELSE IF chunk1 = <<>> THEN TRUE
       ELSE StreamLoop(c1, c2, pos + n, n)

\* mutant: the answer is inverted
compare_stream_inverted(c1, c2, chunk_size, raised) ==
    IF raised THEN FALSE ELSE ~StreamLoop(c1, c2, 0, chunk_size)

\* raised: open() or read() raised FileNotFoundError/IOError, which the function
\* catches, prints and answers with False
compare_stream(c1, c2, chunk_size, raised) ==
    IF raised THEN FALSE ELSE StreamLoop(c1, c2, 0, chunk_size)

-----------------------------------------------------------------------------
(* copies.py: the placement of one origin file, and the two copy loops *)

\* mutant: one more attempt than the constant
MAX_RENAME_ALLOWED_plus_one == 20 + 1

MAX_RENAME_ALLOWED == 20

\* _get_target_path: the date bucket's directory under the destination root
_get_target_path(datestamp) == <<"destination", datestamp>>

Exists(p) == p \in DOMAIN dest

\* mutant: the copy creates the file and writes no byte
WriteFile_empty(fs, p, c) == [q \in DOMAIN fs \cup {p} |-> IF q = p THEN <<>> ELSE fs[q]]

\* the tree after writing content c at path p (shutil.copy2 creates or truncates p)
WriteFile(fs, p, c) == [q \in DOMAIN fs \cup {p} |-> IF q = p THEN c ELSE fs[q]]

NoPath == [parent |-> <<>>, name |-> <<>>]
NoExc == [type |-> "None", at |-> "None"]
OSErrorAt(step) == [type |-> "OSError", at |-> step]
\* mutant: the exhausted loop raises an error of the OSError family
RenameExhausted_as_OSError == [type |-> "OSError", at |-> "Too many rename attempts"]

RenameExhausted == [type |-> "RuntimeError", at |-> "Too many rename attempts"]

Statuses == {"SUCCESS", "EXISTING", "RENAMED", "ERROR"}

\* a filesystem call either goes through or, in a faulty environment, may raise
FaultChoices == IF faulty THEN {FALSE, TRUE} ELSE {FALSE}

Tasks == 1..NumOrigin

origin_of(i) == imgdates[i].origin_fpath

NewTask == [pc |-> "start", destin_fpath |-> NoPath, k |-> 0,
            status |-> "None", exc |-> NoExc, fault |-> "none"]

\* return status, origin_fpath, destin_fpath, exc (the loop counter dies with the frame)
Return(t, status, dfp, exc) ==
    [t EXCEPT !.pc = "returned", !.status = status, !.destin_fpath = dfp, !.exc = exc,
              !.k = 0]

\* copies.py:207 the except clause: ERROR, no destination, the exception caught
Raise(t, step) ==
    [Return(t, "ERROR", NoPath, OSErrorAt(step)) EXCEPT !.fault = step]

\* copies.py:235-237: the plain loop calls _copy_file_task for file i once every
\* earlier file of the dict has been placed and recorded; copies.py:278-281: the
\* pool is handed every file at once
Scheduled(i) == parallel \/ \A j \in 1..(i - 1) : task[j].pc = "recorded"

\* copies.py:195-196: destin_fpath = destin_path / origin_fpath.name; exists()
CheckExists(i) ==
    /\ task[i].pc = "start"
    /\ Scheduled(i)
    /\ LET destin_path == _get_target_path(imgdates[i].datestamp)
           destin_fpath == Join(destin_path, origin_of(i).name)
       IN \E raised \in FaultChoices :
            task' = [task EXCEPT ![i] =
                  IF raised THEN Raise(@, "exists")
                  ELSE IF ~Exists(destin_fpath)
                       THEN [@ EXCEPT !.pc = "copy", !.destin_fpath = destin_fpath]
                       ELSE [@ EXCEPT !.pc = "compare", !.destin_fpath = destin_fpath]]
    /\ destAtStart' = [destAtStart EXCEPT ![i] = dest]
    /\ UNCHANGED <<imgdates, files_orig, faulty, dest, result, run, destAfterRun1,
                   parallel, tw, cmp, pn, cat, hc, db, destInit, cp>>

\* copies.py:197: shutil.copy2(origin_fpath, destin_path) copies into the directory,
\* under the origin's own name
BareCopyTarget(i) == Join(_get_target_path(imgdates[i].datestamp), origin_of(i).name)

\* copies.py:197-198
CopyBare(i) ==
    /\ task[i].pc = "copy"
    /\ \E raised \in FaultChoices :
         IF raised
            THEN /\ task' = [task EXCEPT ![i] = Raise(@, "copy")]
                 /\ dest' = dest
            ELSE /\ dest' = WriteFile(dest, BareCopyTarget(i), files_orig[origin_of(i)])
                 /\ task' = [task EXCEPT ![i] =
                                Return(@, "SUCCESS", @.destin_fpath, NoExc)]
    /\ UNCHANGED <<imgdates, files_orig, faulty, result, destAtStart, run,
                   destAfterRun1, parallel, tw, cmp, pn, cat, hc, db, destInit, cp>>

\* copies.py:199-200: compare_stream(origin_fpath, destin_fpath); a destination file
\* that is gone by now makes open() raise inside compare_stream
Compare(i) ==
    /\ task[i].pc = "compare"
    /\ \E raised \in FaultChoices :
         LET gone == ~Exists(task[i].destin_fpath)
             same == IF gone THEN FALSE
                     ELSE compare_stream(files_orig[origin_of(i)],
                                         dest[task[i].destin_fpath],
                                         CHUNK_SIZE, raised)
         IN task' = [task EXCEPT ![i] =
                  IF same THEN Return(@, "EXISTING", @.destin_fpath, NoExc)
                  ELSE [@ EXCEPT !.pc = "rename", !.k = 0,
                                 !.fault = IF raised THEN "compare" ELSE @]]
    /\ UNCHANGED <<imgdates, files_orig, faulty, dest, result, destAtStart, run,
                   destAfterRun1, parallel, tw, cmp, pn, cat, hc, db, destInit, cp>>

\* copies.py:202: destin_fpath = PhotoPath.from_path(destin_fpath).next.path
NextName(p) == pp_path(pp_next(from_path(p)))

\* copies.py:201-203, 206: one turn of the rename loop, or its exhaustion
RenameStep(i) ==
    /\ task[i].pc = "rename"
    /\ IF task[i].k >= MAX_RENAME_ALLOWED
       THEN task' = [task EXCEPT ![i] = Return(@, "ERROR", NoPath, RenameExhausted)]
       ELSE LET destin_fpath == NextName(task[i].destin_fpath)
            IN \E raised \in FaultChoices :
                 task' = [task EXCEPT ![i] =
                    IF raised THEN Raise(@, "exists")
                    ELSE [@ EXCEPT !.destin_fpath = destin_fpath,
                                   !.k = @ + 1,
                                   !.pc = IF Exists(destin_fpath)
                                          THEN "rename" ELSE "copy_renamed"]]
    /\ UNCHANGED <<imgdates, files_orig, faulty, dest, result, destAtStart, run,
                   destAfterRun1, parallel, tw, cmp, pn, cat, hc, db, destInit, cp>>

\* mutant: the renamed copy is given the directory, as the first copy is
RenamedCopyTarget_into_directory(i) == BareCopyTarget(i)

\* copies.py:204: shutil.copy2(origin_fpath, destin_fpath)
RenamedCopyTarget(i) == task[i].destin_fpath

\* copies.py:204-205
CopyRenamed(i) ==
    /\ task[i].pc = "copy_renamed"
    /\ \E raised \in FaultChoices :
         IF raised
            THEN /\ task' = [task EXCEPT ![i] = Raise(@, "copy")]
                 /\ dest' = dest
            ELSE /\ dest' = WriteFile(dest, RenamedCopyTarget(i), files_orig[origin_of(i)])
                 /\ task' = [task EXCEPT ![i] =
                                Return(@, "RENAMED", @.destin_fpath, NoExc)]
    /\ UNCHANGED <<imgdates, files_orig, faulty, result, destAtStart, run,
                   destAfterRun1, parallel, tw, cmp, pn, cat, hc, db, destInit, cp>>

NewResult == [successful |-> <<>>, existing |-> <<>>, renamed |-> <<>>,
              unsuccessful |-> <<>>, exceptions |-> {}]

\* mutant: an ERROR only keeps its exception
Appended_error_unlisted(res, status, pair, exc) ==
    CASE status = "SUCCESS"  -> [res EXCEPT !.successful = Append(@, pair)]
      [] status = "EXISTING" -> [res EXCEPT !.existing = Append(@, pair)]
      [] status = "RENAMED"  -> [res EXCEPT !.renamed = Append(@, pair)]
      [] status = "ERROR"    -> [res EXCEPT !.exceptions = @ \cup {exc}]
      [] OTHER -> res

\* copies.py:238-246: the list a returned status is appended to
Appended(res, status, pair, exc) ==
    CASE status = "SUCCESS"  -> [res EXCEPT !.successful = Append(@, pair)]
      [] status = "EXISTING" -> [res EXCEPT !.existing = Append(@, pair)]
      [] status = "RENAMED"  -> [res EXCEPT !.renamed = Append(@, pair)]
      [] status = "ERROR"    -> [res EXCEPT !.unsuccessful = Append(@, pair),
                                            !.exceptions = @ \cup {exc}]
      [] OTHER -> res

\* copies.py:237-246 (and 285-294): the loop body takes the task's result
Record(i) ==
    /\ task[i].pc = "returned"
    /\ result' = Appended(result, task[i].status,
                          <<origin_of(i), task[i].destin_fpath>>, task[i].exc)
    /\ task' = [task EXCEPT ![i].pc = "recorded"]
    /\ UNCHANGED <<imgdates, files_orig, faulty, dest, destAtStart, run,
                   destAfterRun1, parallel, tw, cmp, pn, cat, hc, db, destInit, cp>>

AllRecorded == \A i \in Tasks : task[i].pc = "recorded"

-----------------------------------------------------------------------------
(* The trees a copy run starts from *)

NameA == <<"A", ".", "j">>
NameA1 == <<"A", "_", "x", "0", "1", ".", "j">>
OriginNames == {NameA, NameA1}

Contents == {<<1, 2>>, <<1, 3>>}

Date1 == "20240101"
Date2 == "20240102"
Dates == {Date1, Date2}

\* origin files lie in subdirectories of their own, so two may share a filename
OriginDir(i) == <<"origin", ToString(i)>>

\* the k-th name of the sequence A, A_x01, A_x02, ... in directory dir
Slot(dir, k) ==
    IF k = 0 THEN Join(dir, NameA)
    ELSE pp_path([from_path(Join(dir, NameA)) EXCEPT !.counter = k])

\* a content no origin file has
Other == <<1>>

\* a bucket holding the first p slots, slot `hole` left out (hole = 0: none);
\* the bare name holds cb, the renamed ones Other
InitialDest(p, hole, cb) ==
    LET dir == _get_target_path(Date1)
        ks == {k \in 0..(p - 1) : k = 0 \/ k # hole}
    IN [q \in {Slot(dir, k) : k \in ks} |-> IF q = Slot(dir, 0) THEN cb ELSE Other]

ShortTrees ==
    {InitialDest(p, h, cb) : p \in 0..MaxShort, h \in 0..1, cb \in Contents}

LongTrees ==
    {InitialDest(MAX_RENAME_ALLOWED + j, 0, cb) : j \in 0..MaxOver, cb \in Contents}

\* the files of one run were made on the same day, but for the last, which may
\* fall on the next
OriginDates ==
    {ds \in [1..NumOrigin -> Dates] : \A i \in 1..(NumOrigin - 1) : ds[i] = Date1}

IdleTw == [mode |-> "off"]
IdleCmp == [mode |-> "off"]
IdlePn == [mode |-> "off"]
IdleCat == [mode |-> "off"]
IdleHc == [mode |-> "off"]
IdleDb == [mode |-> "off"]
IdleCp == [mode |-> "off"]
\* no copy run: no tree
NoTree == <<>>

InitCopy(trees, names, f0, par) ==
    /\ \E nms \in [1..NumOrigin -> names], ds \in OriginDates :
         imgdates = [i \in 1..NumOrigin |->
                        [origin_fpath |-> Join(OriginDir(i), nms[i]),
                         datestamp |-> ds[i]]]
    /\ files_orig \in [{imgdates[i].origin_fpath : i \in 1..NumOrigin} -> Contents]
    /\ dest \in trees
    /\ task = [i \in 1..NumOrigin |-> NewTask]
    /\ result = NewResult
    /\ faulty = f0
    /\ destAtStart = [i \in 1..NumOrigin |-> dest]
    /\ run = 1
    /\ destAfterRun1 = dest
    /\ parallel = par
    /\ cp = IdleCp
    /\ destInit = dest
    /\ db = IdleDb
    /\ hc = IdleHc
    /\ tw = IdleTw
    /\ cmp = IdleCmp
    /\ pn = IdlePn
    /\ cat = IdleCat

\* copy_photographs(parallel=False), one run, the environment free to raise faults;
\* the nearly full buckets are met by files of the bare name
Init ==
    \/ InitCopy(ShortTrees, OriginNames, TRUE, FALSE)
    \/ InitCopy(LongTrees, {NameA}, TRUE, FALSE)

\* _copy_imgdates and _copy_imgdates_parallel: the steps of the tasks and the
\* taking of their results (in the pool, by as_completed, in completion order)
Next ==
    \E i \in Tasks :
        \/ CheckExists(i)
        \/ CopyBare(i)
        \/ Compare(i)
        \/ RenameStep(i)
        \/ CopyRenamed(i)
        \/ Record(i)

Spec == Init /\ [][Next]_vars

ParTrees == {InitialDest(p, 0, cb) : p \in 0..MaxParSlots, cb \in Contents}

\* copy_photographs(parallel=True), the default, in an environment that raises no fault
InitPar == InitCopy(ParTrees, OriginNames, FALSE, TRUE)

SpecPar == InitPar /\ [][Next]_vars

\* copy_photographs is run again over the same origin tree and the destination the
\* first run left
Rerun ==
    /\ run = 1
    /\ AllRecorded
    /\ run' = 2
    /\ destAfterRun1' = dest
    /\ task' = [i \in Tasks |-> NewTask]
    /\ result' = NewResult
    /\ destInit' = dest
    /\ UNCHANGED <<imgdates, files_orig, faulty, dest, destAtStart, parallel, tw,
                   cmp, pn, cat, hc, db, cp>>

\* two sequential runs in an environment that raises no fault
InitRerun == InitCopy(ShortTrees, OriginNames, FALSE, FALSE)

NextRerun == Next \/ Rerun

SpecRerun == InitRerun /\ [][NextRerun]_vars

-----------------------------------------------------------------------------
(* diff.py: candidates and twins.  A file reference is a record [path, content]:  *)
(* the path as enumerated and the content the file holds on disk; the filters and *)
(* the comparator are taken to be defined on the references they are handed.      *)

\* diff.py:43, 46: PhotoPath.from_path(Path(root) / file)
PP(ref) == from_path(ref.path)

\* diff.py:50-51
_same_name(r1, r2) == same_name(PP(r1), PP(r2))

\* diff.py:53-54: st_size of the two files
_same_size(r1, r2) == Len(r1.content) = Len(r2.content)

\* diff.py:120-123, 144: all(fun(orig_path, dest_path) for fun in FUN_FILTER)
FUN_FILTER(r1, r2) == _same_name(r1, r2) /\ _same_size(r1, r2)

\* mutant: the only candidate of an origin file is the destination file kept for
\* its file name
find_candidates_by_name_index(paths1, paths2) ==
    LET Kept(nm) == LET I == {n \in 1..Len(paths2) : paths2[n].path.name = nm}
                    IN IF I = {} THEN <<>>
                       ELSE <<paths2[CHOOSE n \in I : \A m \in I : m <= n]>>
        Cands(r1) == LET Passes(r2) == FUN_FILTER(r1, r2)
                     IN SelectSeq(Kept(r1.path.name), Passes)
        keys == {paths1[n] : n \in 1..Len(paths1)}
    IN [r1 \in {r \in keys : Cands(r) # <<>>} |-> Cands(r1)]

\* diff.py:139-147: the dict of the origin files that have a candidate; an origin
\* file without one is no key of it
find_candidates(paths1, paths2) ==
    LET Cands(r1) == LET Passes(r2) == FUN_FILTER(r1, r2) IN SelectSeq(paths2, Passes)
        keys == {paths1[n] : n \in 1..Len(paths1)}
    IN [r1 \in {r \in keys : Cands(r) # <<>>} |-> Cands(r1)]

\* the keys of the candidates dict in insertion order: the order of paths1
RECURSIVE Distinct(_)
Distinct(s) ==
    IF s = <<>> THEN <<>>
    ELSE LET rest == Distinct(SubSeq(s, 1, Len(s) - 1))
             last == s[Len(s)]
         IN IF \E n \in 1..Len(rest) : rest[n] = last THEN rest ELSE Append(rest, last)

KeysInOrder(paths1, cands) ==
    LET IsKey(r) == r \in DOMAIN cands IN SelectSeq(Distinct(paths1), IsKey)

\* diff.py:164-168 and 195-199: the candidates both resolvers start from
Candidates(paths1, paths2, filtered) ==
    IF filtered THEN find_candidates(paths1, paths2)
    ELSE [r1 \in {paths1[n] : n \in 1..Len(paths1)} |-> paths2]

\* FUN_COMPARE on two references: compare_stream of the two files' contents
fun_compare(r1, r2) == compare_stream(r1.content, r2.content, CHUNK_SIZE, FALSE)

\* twins[p1].append(p2) on a defaultdict(list)
AddTwin(twins, r1, r2) ==
    [r \in DOMAIN twins \cup {r1} |->
        IF r = r1 THEN (IF r1 \in DOMAIN twins THEN Append(twins[r1], r2) ELSE <<r2>>)
        ELSE twins[r]]

NoTwins == [r \in {} |-> <<>>]

\* diff.py:172-173: the sequential resolver pairs every origin file p1 with every
\* p2 of `for p2 in candidates`, the keys of the dict
SeqPairs(paths1, cands) ==
    LET keys == KeysInOrder(paths1, cands)
    IN [n \in 1..(Len(paths1) * Len(keys)) |->
          <<paths1[((n - 1) \div Len(keys)) + 1], keys[((n - 1) % Len(keys)) + 1]>>]

\* diff.py:206-212: the pool is handed every p1 of paths1 with every p2 of
\* candidates[p1]
RECURSIVE ParPairs(_, _)
ParPairs(paths1, cands) ==
    IF paths1 = <<>> THEN <<>>
    ELSE LET r1 == Head(paths1)
         IN [n \in 1..Len(cands[r1]) |-> <<r1, cands[r1][n]>>]
                \o ParPairs(Tail(paths1), cands)

\* candidates[p1] raises KeyError for an origin file that is no key
HasKeyError(paths1, cands) == \E n \in 1..Len(paths1) : paths1[n] \notin DOMAIN cands

TwRunning == tw.mode = "on"

\* diff.py:174-175: one turn of find_twins' inner loop
SeqCompare ==
    /\ TwRunning
    /\ tw.seq_pc = "loop"
    /\ LET pairs == SeqPairs(tw.paths1, Candidates(tw.paths1, tw.paths2, tw.filtered))
       IN IF tw.seq_n > Len(pairs)
          THEN tw' = [tw EXCEPT !.seq_pc = "done"]
          ELSE LET pr == pairs[tw.seq_n]
               IN IF pr \in tw.raising
                  THEN tw' = [tw EXCEPT !.seq_pc = "raised"]
                  ELSE tw' = [tw EXCEPT
                          !.seq_n = @ + 1,
                          !.seq_twins = IF fun_compare(pr[1], pr[2])
                                        THEN AddTwin(@, pr[1], pr[2]) ELSE @]
    /\ UNCHANGED <<imgdates, files_orig, faulty, dest, task, result, destAtStart, run,
                   destAfterRun1, parallel, cmp, pn, cat, hc, db, destInit, cp>>

\* diff.py:205-212: find_twins_parallel, called once find_twins is over, submits
\* one future per pair
ParSubmit ==
    /\ TwRunning
    /\ tw.seq_pc \in {"done", "raised"}
    /\ tw.par_pc = "submit"
    /\ LET cands == Candidates(tw.paths1, tw.paths2, tw.filtered)
       IN IF HasKeyError(tw.paths1, cands)
          THEN tw' = [tw EXCEPT !.par_pc = "raised", !.par_exc = "KeyError"]
          ELSE LET pairs == ParPairs(tw.paths1, cands)
               IN tw' = [tw EXCEPT !.par_pc = "collect",
                                   !.futures = {<<n, pairs[n]>> : n \in 1..Len(pairs)},
                                   !.submitted = Len(pairs)]
    /\ UNCHANGED <<imgdates, files_orig, faulty, dest, task, result, destAtStart, run,
                   destAfterRun1, parallel, cmp, pn, cat, hc, db, destInit, cp>>

\* diff.py:213-216: as_completed hands over some finished future; future.result()
\* re-raises what the comparator raised
ParCollect ==
    /\ TwRunning
    /\ tw.par_pc = "collect"
    /\ IF tw.futures = {}
       THEN tw' = [tw EXCEPT !.par_pc = "done"]
       ELSE \E f \in tw.futures :
              LET pr == f[2]
              IN IF pr \in tw.raising
                 THEN tw' = [tw EXCEPT !.par_pc = "raised", !.par_exc = "comparator",
                                       !.futures = @ \ {f}]
                 ELSE tw' = [tw EXCEPT
                         !.futures = @ \ {f},
                         !.par_twins = IF fun_compare(pr[1], pr[2])
                                       THEN AddTwin(@, pr[1], pr[2]) ELSE @]
    /\ UNCHANGED <<imgdates, files_orig, faulty, dest, task, result, destAtStart, run,
                   destAfterRun1, parallel, cmp, pn, cat, hc, db, destInit, cp>>

\* diff.py:251: [p.path for p in paths_origin if twins.get(p, [])]
find_files_with_copy(paths_origin, twins) ==
    LET HasTwin(r) == r \in DOMAIN twins /\ twins[r] # <<>>
        kept == SelectSeq(paths_origin, HasTwin)
    IN [n \in 1..Len(kept) |-> pp_path(PP(kept[n]))]

\* diff.py:246-252: find_files_with_copy on the lists enumerated, with the resolver
\* its parameter `parallel` selects and the filter chain FUN_FILTER, once that
\* resolver has returned
FindFilesWithCopy ==
    /\ TwRunning
    /\ tw.filtered
    /\ tw.fwc_pc = "call"
    /\ tw.seq_pc \in {"done", "raised"}
    /\ tw.par_pc \in {"done", "raised"}
    /\ \E par \in BOOLEAN :
         /\ (IF par THEN tw.par_pc ELSE tw.seq_pc) = "done"
         /\ tw' = [tw EXCEPT
                     !.fwc_pc = "returned",
                     !.fwc_parallel = par,
                     !.with_copy = find_files_with_copy(tw.paths1,
                                      IF par THEN tw.par_twins ELSE tw.seq_twins)]
    /\ UNCHANGED <<imgdates, files_orig, faulty, dest, task, result, destAtStart, run,
                   destAfterRun1, parallel, cmp, pn, cat, hc, db, destInit, cp>>

NameB == <<"B", ".", "j">>
TwOriginNames == {NameA, NameB}
TwDestNames == {NameA, NameA1, NameB}
TwOriginContents == {<<1, 2>>, <<1>>}
TwDestContents == {<<1, 2>>, <<1, 3>>, <<1>>}

\* the sequences of lo..hi distinct elements of S
DistinctSeqs(S, lo, hi) ==
    UNION {{q \in [1..m -> S] : \A a, b \in 1..m : a # b => q[a] # q[b]} : m \in lo..hi}

Refs(dir, nameSeqs, contents) ==
    UNION {{[n \in 1..Len(q) |-> [path |-> Join(dir, q[n]), content |-> cs[n]]] :
              cs \in [1..Len(q) -> contents]} : q \in nameSeqs}

\* both resolvers are given the same lists, the same filter choice and the same
\* comparator, which may raise for one pair of an origin and a destination file
InitTwins ==
    /\ \E paths1 \in Refs(<<"origin">>, DistinctSeqs(TwOriginNames, 1, MaxTwOrigin),
                           TwOriginContents),
          paths2 \in Refs(_get_target_path(Date1),
                           DistinctSeqs(TwDestNames, 0, MaxTwDest), TwDestContents),
          filtered \in BOOLEAN :
         \E raising \in {{}} \cup {{<<paths1[a], paths2[b]>>} :
                                      a \in 1..Len(paths1), b \in 1..Len(paths2)} :
            tw = [mode |-> "on", paths1 |-> paths1, paths2 |-> paths2,
                  filtered |-> filtered, raising |-> raising,
                  seq_pc |-> "loop", seq_n |-> 1, seq_twins |-> NoTwins,
                  par_pc |-> "submit", futures |-> {}, submitted |-> 0,
                  par_twins |-> NoTwins, par_exc |-> "None",
                  fwc_pc |-> "call", fwc_parallel |-> FALSE, with_copy |-> <<>>]
    /\ imgdates = <<>>
    /\ files_orig = <<>>
    /\ dest = <<>>
    /\ task = <<>>
    /\ result = NewResult
    /\ faulty = FALSE
    /\ destAtStart = <<>>
    /\ run = 1
    /\ destAfterRun1 = <<>>
    /\ parallel = FALSE
    /\ cp = IdleCp
    /\ destInit = NoTree
    /\ db = IdleDb
    /\ hc = IdleHc
    /\ cmp = IdleCmp
    /\ pn = IdlePn
    /\ cat = IdleCat

NextTwins == SeqCompare \/ ParSubmit \/ ParCollect \/ FindFilesWithCopy

SpecTwins == InitTwins /\ [][NextTwins]_vars

-----------------------------------------------------------------------------
(* diff.py: one call of a content comparator, step by step.  The two files are   *)
(* numbered 1 and 2; cmp.opened are the files the call has opened, cmp.reads     *)
(* the number of read() calls it made, cmp.hit the filesystem error it met.      *)

\* diff.py:86: f.read(4096)
HASH_CHUNK_SIZE == 4096

\* diff.py:84-88: the SHA-256 digest of the bytes read, taken to be free of
\* collisions: the digest of a content is that content under the tag "sha256"
calculate_file_hash(c) == <<"sha256", c>>

\* read() calls of `for chunk in iter(lambda: f.read(4096), b"")` on content c: one
\* per chunk and the one that returns b""
HashReads(c) == ((Len(c) + HASH_CHUNK_SIZE - 1) \div HASH_CHUNK_SIZE) + 1

CmpRunning == cmp.mode = "on"

\* a call that is over: it returned a value or let an exception out
CmpOver == CmpRunning /\ cmp.pc \in {"returned", "raised"}

\* diff.py:102-103, 113-115: `with open(file1, "rb") as f1, open(file2, "rb") as f2`
\* opens file1, then file2; FileNotFoundError is caught and False returned
StreamOpen ==
    /\ CmpRunning
    /\ cmp.alg = "stream"
    /\ cmp.pc = "call"
    /\ cmp' = CASE cmp.fault = "open1" ->
                    [cmp EXCEPT !.pc = "returned", !.out = FALSE, !.hit = "open1"]
                [] cmp.fault = "open2" ->
                    [cmp EXCEPT !.pc = "returned", !.out = FALSE, !.hit = "open2",
                                !.opened = {1}]
                [] OTHER ->
                    [cmp EXCEPT !.pc = "loop", !.opened = {1, 2}]
    /\ UNCHANGED <<imgdates, files_orig, faulty, dest, task, result, destAtStart, run,
                   destAfterRun1, parallel, tw, pn, cat, hc, db, destInit, cp>>

\* diff.py:104-112, 116-118: one turn of the while loop; an IOError of a read is
\* caught and False returned
StreamRead ==
    /\ CmpRunning
    /\ cmp.alg = "stream"
    /\ cmp.pc = "loop"
    /\ \E fails \in (IF cmp.fault = "read" THEN {FALSE, TRUE} ELSE {FALSE}) :
         LET chunk1 == Read(cmp.c1, cmp.pos, cmp.chunk_size)
             chunk2 == Read(cmp.c2, cmp.pos, cmp.chunk_size)
         IN cmp' = IF fails
                   THEN [cmp EXCEPT !.pc = "returned", !.out = FALSE, !.hit = "read",
                                    !.reads = @ + 1]
                   ELSE IF chunk1 # chunk2
                   THEN [cmp EXCEPT !.pc = "returned", !.out = FALSE, !.reads = @ + 2]
                   ELSE IF chunk1 = <<>>
                   THEN [cmp EXCEPT !.pc = "returned", !.out = TRUE, !.reads = @ + 2]
                   ELSE [cmp EXCEPT !.pos = @ + cmp.chunk_size, !.reads = @ + 2]
    /\ UNCHANGED <<imgdates, files_orig, faulty, dest, task, result, destAtStart, run,
                   destAfterRun1, parallel, tw, pn, cat, hc, db, destInit, cp>>

\* diff.py:70, 84-88: calculate_file_hash(file1), then calculate_file_hash(file2);
\* each opens its file and reads it to the end, and nothing catches what they raise
HashFile ==
    /\ CmpRunning
    /\ cmp.alg = "hash"
    /\ cmp.pc \in {"call", "hashed1"}
    /\ LET n == IF cmp.pc = "call" THEN 1 ELSE 2
           c == IF n = 1 THEN cmp.c1 ELSE cmp.c2
       IN \E fails \in (IF cmp.fault = "read" THEN {FALSE, TRUE} ELSE {FALSE}) :
            cmp' = IF cmp.fault = (IF n = 1 THEN "open1" ELSE "open2")
                   THEN [cmp EXCEPT !.pc = "raised", !.hit = cmp.fault]
                   ELSE IF fails
                   THEN [cmp EXCEPT !.pc = "raised", !.hit = "read",
                                    !.opened = @ \cup {n}, !.reads = @ + 1]
                   ELSE [cmp EXCEPT !.pc = IF n = 1 THEN "hashed1" ELSE "hashed2",
                                    !.opened = @ \cup {n},
                                    !.reads = @ + HashReads(c)]
    /\ UNCHANGED <<imgdates, files_orig, faulty, dest, task, result, destAtStart, run,
                   destAfterRun1, parallel, tw, pn, cat, hc, db, destInit, cp>>

\* diff.py:70: the two digests are compared
compare_hash ==
    /\ CmpRunning
    /\ cmp.alg = "hash"
    /\ cmp.pc = "hashed2"
    /\ cmp' = [cmp EXCEPT !.pc = "returned",
                          !.out = (calculate_file_hash(cmp.c1) = calculate_file_hash(cmp.c2))]
    /\ UNCHANGED <<imgdates, files_orig, faulty, dest, task, result, destAtStart, run,
                   destAfterRun1, parallel, tw, pn, cat, hc, db, destInit, cp>>

\* the bytes the compared files are made of, and the chunk sizes a call is given
CmpBytes == {1, 2}
CmpChunkSizes == {1, 2, CHUNK_SIZE}
CmpContents == UNION {[1..n -> CmpBytes] : n \in 0..MaxCmpLen}

\* compare_stream or compare_hash is called on two files of any contents; the
\* environment may make one open() or one read() of the call fail
InitCompare ==
    /\ \E alg \in {"stream", "hash"}, c1 \in CmpContents, c2 \in CmpContents,
          chunk_size \in CmpChunkSizes, fault \in {"none", "open1", "open2", "read"} :
         cmp = [mode |-> "on", alg |-> alg, c1 |-> c1, c2 |-> c2,
                chunk_size |-> chunk_size, fault |-> fault, pc |-> "call", pos |-> 0,
                opened |-> {}, reads |-> 0, out |-> "None", hit |-> "none"]
    /\ imgdates = <<>>
    /\ files_orig = <<>>
    /\ dest = <<>>
    /\ task = <<>>
    /\ result = NewResult
    /\ faulty = FALSE
    /\ destAtStart = <<>>
    /\ run = 1
    /\ destAfterRun1 = <<>>
    /\ parallel = FALSE
    /\ cp = IdleCp
    /\ destInit = NoTree
    /\ db = IdleDb
    /\ hc = IdleHc
    /\ tw = IdleTw
    /\ pn = IdlePn
    /\ cat = IdleCat

NextCompare == StreamOpen \/ StreamRead \/ HashFile \/ compare_hash

SpecCompare == InitCompare /\ [][NextCompare]_vars

-----------------------------------------------------------------------------
(* photopath.py: a file name is decoded into a PhotoPath, advanced with next, and *)
(* its encoded path decoded again                                                *)

PnRunning == pn.mode = "on"

\* photopath.py:14-27: PhotoPath.from_path(p) of the path as found on disk
Decode ==
    /\ PnRunning
    /\ pn.pc = "path"
    /\ pn' = [pn EXCEPT !.pc = "decoded", !.pp = from_path(pn.p)]
    /\ UNCHANGED <<imgdates, files_orig, faulty, dest, task, result, destAtStart, run,
                   destAfterRun1, parallel, tw, cmp, cat, hc, db, destInit, cp>>

\* photopath.py:37-44: the PhotoPath is replaced by its next
NextPhotoPath ==
    /\ PnRunning
    /\ pn.pc = "decoded"
    /\ pn.nexts < MaxNext
    /\ pn' = [pn EXCEPT !.pp = pp_next(@), !.nexts = @ + 1]
    /\ UNCHANGED <<imgdates, files_orig, faulty, dest, task, result, destAtStart, run,
                   destAfterRun1, parallel, tw, cmp, cat, hc, db, destInit, cp>>

\* photopath.py:46-48, 14-27: PhotoPath.from_path(pp.path), as copies.py:202 does on
\* the next turn of its loop and diff.py:43 on the next enumeration of the tree
Redecode ==
    /\ PnRunning
    /\ pn.pc = "decoded"
    /\ pn' = [pn EXCEPT !.pc = "redecoded", !.rt = from_path(pp_path(pn.pp))]
    /\ UNCHANGED <<imgdates, files_orig, faulty, dest, task, result, destAtStart, run,
                   destAfterRun1, parallel, tw, cmp, cat, hc, db, destInit, cp>>

\* file names: a base, 0..MaxTokens tokens that look like counters (two lowercase
\* hex digits, an uppercase digit, one digit only), an extension
NameBases == {<<>>, <<"A">>, <<"A", ".", "b">>}
NameTokens == {<<"_", "x", "0", "1">>, <<"_", "x", "f", "f">>,
               <<"_", "x", "0", "A">>, <<"_", "x", "1">>}
NameExts == {<<>>, <<".">>, <<".", "j">>}

RECURSIVE TokenRuns(_)
TokenRuns(n) ==
    IF n = 0 THEN {<<>>}
    ELSE TokenRuns(n - 1) \cup {r \o t : r \in TokenRuns(n - 1), t \in NameTokens}

\* "" and "." are no file names
FileNames ==
    {b \o r \o e : b \in NameBases, r \in TokenRuns(MaxTokens), e \in NameExts}
        \ {<<>>, <<".">>}

NoPhotoPath == [parent |-> <<>>, stem |-> <<>>, suffix |-> <<>>, counter |-> 0]

InitName ==
    /\ \E nm \in FileNames :
         pn = [mode |-> "on", p |-> Join(_get_target_path(Date1), nm), pc |-> "path",
               pp |-> NoPhotoPath, nexts |-> 0, rt |-> NoPhotoPath]
    /\ imgdates = <<>>
    /\ files_orig = <<>>
    /\ dest = <<>>
    /\ task = <<>>
    /\ result = NewResult
    /\ faulty = FALSE
    /\ destAtStart = <<>>
    /\ run = 1
    /\ destAfterRun1 = <<>>
    /\ parallel = FALSE
    /\ cp = IdleCp
    /\ destInit = NoTree
    /\ db = IdleDb
    /\ hc = IdleHc
    /\ tw = IdleTw
    /\ cmp = IdleCmp
    /\ cat = IdleCat

NextOfName == Decode \/ NextPhotoPath \/ Redecode

SpecName == InitName /\ [][NextOfName]_vars

-----------------------------------------------------------------------------
(* catalog.py: the Hash table (rows <<path, hash>>, in insertion order) and the  *)
(* Directories table (of which the rows' path and kind are kept), the add of     *)
(* records and the duplicate and idle queries.  A path here is the TEXT the      *)
(* table holds: a sequence of characters.                                        *)

CatRunning == cat.mode = "on"

\* mutant: a plain INSERT into a table without the UNIQUE constraint
add_without_ignore(rows, entries) == rows \o entries

\* catalog.py:22, 82-83: INSERT OR IGNORE into a table whose path is UNIQUE: an
\* entry whose path the table holds already is dropped, the others are appended in
\* the order given
RECURSIVE add(_, _)
add(rows, entries) ==
    IF entries = <<>> THEN rows
    ELSE LET e == Head(entries)
         IN add(IF \E n \in 1..Len(rows) : rows[n][1] = e[1] THEN rows
                ELSE Append(rows, e),
                Tail(entries))

\* catalog.py:148-153: the defaultdict hash -> [paths], as the sequence of its
\* items in the order the hashes were first met
RECURSIVE _hash_to_path(_)
_hash_to_path(rows) ==
    IF rows = <<>> THEN <<>>
    ELSE LET prev == _hash_to_path(SubSeq(rows, 1, Len(rows) - 1))
             path == rows[Len(rows)][1]
             hsh  == rows[Len(rows)][2]
         IN IF \E n \in 1..Len(prev) : prev[n].hash = hsh
            THEN [n \in 1..Len(prev) |->
                    IF prev[n].hash = hsh
                    THEN [prev[n] EXCEPT !.paths = Append(@, path)] ELSE prev[n]]
            ELSE Append(prev, [hash |-> hsh, paths |-> <<path>>])

\* hash_to_path.values()
Values(h2p) == [n \in 1..Len(h2p) |-> h2p[n].paths]

\* [path for paths in groups for path in paths]
RECURSIVE Flatten(_)
Flatten(groups) ==
    IF groups = <<>> THEN <<>> ELSE Head(groups) \o Flatten(Tail(groups))

\* mutant: groups of one path are kept
find_duplicates_keeps_singletons(rows, grouped) ==
    LET duplicates == Values(_hash_to_path(rows))
    IN IF grouped THEN duplicates ELSE Flatten(duplicates)

\* catalog.py:164-173
find_duplicates(rows, grouped) ==
    LET IsDuplicate(paths) == Len(paths) > 1
        duplicates == SelectSeq(Values(_hash_to_path(rows)), IsDuplicate)
    IN IF grouped THEN duplicates ELSE Flatten(duplicates)

\* os.path.commonprefix((a, b)): the longest string both start with, character by
\* character
commonprefix(a, b) ==
    LET agree == {k \in 0..Min(Len(a), Len(b)) : \A i \in 1..k : a[i] = b[i]}
    IN SubSeq(a, 1, CHOOSE k \in agree : \A j \in agree : j <= k)

\* mutant: every directory counts, whatever its kind
archive_directories_of_any_kind(dirs) == [n \in 1..Len(dirs) |-> dirs[n][1]]

\* catalog.py:181-186: the paths of the directories of kind ARCHIVE
archive_directories(dirs) ==
    LET IsArchive(d) == d[2] = "ARCHIVE"
        kept == SelectSeq(dirs, IsArchive)
    IN [n \in 1..Len(kept) |-> kept[n][1]]

\* catalog.py:187-190: warnings.warn when no directory is an archive
warns(dirs) == archive_directories(dirs) = <<>>

\* catalog.py:191-203
find_idle(rows, dirs, grouped) ==
    LET archive == archive_directories(dirs)
        IsIdle(paths) ==
            ~ \E d \in 1..Len(archive), q \in 1..Len(paths) :
                 commonprefix(archive[d], paths[q]) = archive[d]
        idle == SelectSeq(Values(_hash_to_path(rows)), IsIdle)
    IN IF grouped THEN idle ELSE Flatten(idle)

\* the paths of the files and of the directories the tables may hold, the hashes,
\* the kinds
PathA1 == <<"/", "a", "/", "1">>
PathAb1 == <<"/", "a", "b", "/", "1">>
PathB1 == <<"/", "b", "/", "1">>
CatPaths == {PathA1, PathAb1, PathB1}
CatHashes == {"h1", "h2"}
DirA == <<"/", "a">>
DirB == <<"/", "b">>
CatDirs == {DirA, DirB}
CatKinds == {"ARCHIVE", "LOCAL"}

\* catalog.py:70-85: Catalog.add("Hash", entries); cat.ignored counts the entries
\* of the call whose path was in the table or earlier in the list
CatalogAdd ==
    /\ CatRunning
    /\ cat.adds < MaxAdds
    /\ \E m \in 1..MaxEntries :
         \E entries \in [1..m -> CatPaths \X CatHashes] :
            cat' = [cat EXCEPT
                      !.Hash = add(@, entries),
                      !.adds = @ + 1,
                      !.call = "add",
                      !.grouped = FALSE,
                      !.out = <<>>,
                      !.warned = FALSE,
                      !.ignored = Len(cat.Hash) + m - Len(add(cat.Hash, entries))]
    /\ UNCHANGED <<imgdates, files_orig, faulty, dest, task, result, destAtStart, run,
                   destAfterRun1, parallel, tw, cmp, pn, hc, db, destInit, cp>>

\* catalog.py:164-173: Catalog.find_duplicates(grouped)
FindDuplicates ==
    /\ CatRunning
    /\ \E grouped \in BOOLEAN :
         cat' = [cat EXCEPT !.call = "find_duplicates",
                            !.grouped = grouped,
                            !.out = find_duplicates(cat.Hash, grouped),
                            !.warned = FALSE,
                            !.ignored = 0]
    /\ UNCHANGED <<imgdates, files_orig, faulty, dest, task, result, destAtStart, run,
                   destAfterRun1, parallel, tw, cmp, pn, hc, db, destInit, cp>>

\* catalog.py:175-203: Catalog.find_idle(grouped)
FindIdle ==
    /\ CatRunning
    /\ \E grouped \in BOOLEAN :
         cat' = [cat EXCEPT !.call = "find_idle",
                            !.grouped = grouped,
                            !.out = find_idle(cat.Hash, cat.Directories, grouped),
                            !.warned = warns(cat.Directories),
                            !.ignored = 0]
    /\ UNCHANGED <<imgdates, files_orig, faulty, dest, task, result, destAtStart, run,
                   destAfterRun1, parallel, tw, cmp, pn, hc, db, destInit, cp>>

\* the Directories tables of up to MaxDirs directories, each path once
DirectoryTables ==
    UNION {{[n \in 1..Len(q) |-> <<q[n], ks[n]>>] : ks \in [1..Len(q) -> CatKinds]} :
              q \in DistinctSeqs(CatDirs, 0, MaxDirs)}

\* a Catalog on a database with some directories registered and no hash yet
InitCatalog ==
    /\ \E dirs \in DirectoryTables :
         cat = [mode |-> "on", Hash |-> <<>>, Directories |-> dirs, adds |-> 0,
                call |-> "none", grouped |-> FALSE, out |-> <<>>, warned |-> FALSE,
                ignored |-> 0]
    /\ imgdates = <<>>
    /\ files_orig = <<>>
    /\ dest = <<>>
    /\ task = <<>>
    /\ result = NewResult
    /\ faulty = FALSE
    /\ destAtStart = <<>>
    /\ run = 1
    /\ destAfterRun1 = <<>>
    /\ parallel = FALSE
    /\ cp = IdleCp
    /\ destInit = NoTree
    /\ db = IdleDb
    /\ hc = IdleHc
    /\ tw = IdleTw
    /\ cmp = IdleCmp
    /\ pn = IdlePn

NextCatalog == CatalogAdd \/ FindDuplicates \/ FindIdle

SpecCatalog == InitCatalog /\ [][NextCatalog]_vars

-----------------------------------------------------------------------------
(* diff.py: a sequence of compare_hash calls in one process.  hc.files are the   *)
(* files on disk, hc.cache the entries of the lru_cache of calculate_file_hash   *)
(* (path -> digest), hc.opens and hc.reads the number of times the function has  *)
(* opened each path and read it to its end.                                      *)

HcRunning == hc.mode = "on"

HcPaths == {"p", "q"}
HcContents == {<<1>>, <<2>>}

\* mutant: the cache keeps the most recent entry only
cache_store_maxsize_1(cache, key, digest) == [k \in {key} |-> digest]

\* diff.py:73, functools.lru_cache(maxsize=None): the result of a miss is stored
\* under its argument; nothing is ever evicted
cache_store(cache, key, digest) ==
    [k \in DOMAIN cache \cup {key} |-> IF k = key THEN digest ELSE cache[k]]

\* diff.py:59, 70: compare_hash(file1, file2) is called
CallCompareHash ==
    /\ HcRunning
    /\ hc.pc = "idle"
    /\ hc.calls < MaxHashCalls
    /\ \E file1 \in HcPaths, file2 \in HcPaths :
         hc' = [hc EXCEPT !.pc = "first", !.calls = @ + 1, !.file1 = file1,
                          !.file2 = file2, !.out = "None"]
    /\ UNCHANGED <<imgdates, files_orig, faulty, dest, task, result, destAtStart, run,
                   destAfterRun1, parallel, tw, cmp, pn, cat, db, destInit, cp>>

\* diff.py:70, 73-88: calculate_file_hash(file1), then calculate_file_hash(file2),
\* through the cache: a hit returns the stored digest and runs nothing; a miss
\* opens the file, reads it to the end and stores the digest; an exception of
\* open() or read() leaves the call, and compare_hash, with nothing stored
CachedFileHash ==
    /\ HcRunning
    /\ hc.pc \in {"first", "second"}
    /\ LET filepath == IF hc.pc = "first" THEN hc.file1 ELSE hc.file2
           after == IF hc.pc = "first" THEN "second" ELSE "compare"
       IN IF filepath \in DOMAIN hc.cache
          THEN hc' = [hc EXCEPT !.pc = after, !.got = Append(@, hc.cache[filepath])]
          ELSE \E hit \in (IF hc.faulty THEN {"none", "open", "read"} ELSE {"none"}) :
                 hc' = CASE hit = "open" ->
                              [hc EXCEPT !.pc = "idle", !.out = "raised", !.got = <<>>]
                         [] hit = "read" ->
                              [hc EXCEPT !.pc = "idle", !.out = "raised", !.got = <<>>,
                                         !.opens[filepath] = @ + 1]
                         [] OTHER ->
                              LET digest == calculate_file_hash(hc.files[filepath])
                              IN [hc EXCEPT !.pc = after, !.got = Append(@, digest),
                                            !.opens[filepath] = @ + 1,
                                            !.reads[filepath] = @ + 1,
                                            !.cache = cache_store(@, filepath, digest)]
    /\ UNCHANGED <<imgdates, files_orig, faulty, dest, task, result, destAtStart, run,
                   destAfterRun1, parallel, tw, cmp, pn, cat, db, destInit, cp>>

\* diff.py:70: the two digests are compared and the answer returned
ReturnCompareHash ==
    /\ HcRunning
    /\ hc.pc = "compare"
    /\ hc' = [hc EXCEPT !.pc = "idle", !.got = <<>>,
                          !.out = IF hc.got[1] = hc.got[2] THEN "True" ELSE "False"]
    /\ UNCHANGED <<imgdates, files_orig, faulty, dest, task, result, destAtStart, run,
                   destAfterRun1, parallel, tw, cmp, pn, cat, db, destInit, cp>>

\* between two calls, another program gives a file a new content
RewriteFile ==
    /\ HcRunning
    /\ hc.pc = "idle"
    /\ \E filepath \in HcPaths, c \in HcContents :
         /\ c # hc.files[filepath]
         /\ hc' = [hc EXCEPT !.files[filepath] = c]
    /\ UNCHANGED <<imgdates, files_orig, faulty, dest, task, result, destAtStart, run,
                   destAfterRun1, parallel, tw, cmp, pn, cat, db, destInit, cp>>

\* a fresh process: nothing is cached; the files hold any contents
InitHash ==
    /\ \E files \in [HcPaths -> HcContents], f0 \in BOOLEAN :
         hc = [mode |-> "on", files |-> files, faulty |-> f0, cache |-> <<>>,
               opens |-> [p \in HcPaths |-> 0], reads |-> [p \in HcPaths |-> 0],
               calls |-> 0, pc |-> "idle", file1 |-> "p", file2 |-> "p",
               got |-> <<>>, out |-> "None"]
    /\ imgdates = <<>>
    /\ files_orig = <<>>
    /\ dest = <<>>
    /\ task = <<>>
    /\ result = NewResult
    /\ faulty = FALSE
    /\ destAtStart = <<>>
    /\ run = 1
    /\ destAfterRun1 = <<>>
    /\ parallel = FALSE
    /\ cp = IdleCp
    /\ destInit = NoTree
    /\ db = IdleDb
    /\ tw = IdleTw
    /\ cmp = IdleCmp
    /\ pn = IdlePn
    /\ cat = IdleCat

NextHash == CallCompareHash \/ CachedFileHash \/ ReturnCompareHash \/ RewriteFile

SpecHash == InitHash /\ [][NextHash]_vars

-----------------------------------------------------------------------------
(* diff.py: the filter chain of find_candidates, call by call *)

\* diff.py:120-123: FUN_FILTER, the list
FilterChain == <<"_same_name", "_same_size">>

CallFilter(fun, r1, r2) ==
    IF fun = "_same_name" THEN _same_name(r1, r2) ELSE _same_size(r1, r2)

\* diff.py:144: all(fun(orig_path, dest_path) for fun in funs) calls the filters
\* of the chain from its n-th on, in order, until one returns False: the values
\* returned, in the order of the calls
RECURSIVE FilterCalls(_, _, _)
FilterCalls(n, r1, r2) ==
    IF n > Len(FilterChain) THEN <<>>
    ELSE LET v == CallFilter(FilterChain[n], r1, r2)
         IN IF v THEN <<v>> \o FilterCalls(n + 1, r1, r2) ELSE <<v>>

-----------------------------------------------------------------------------
(* catalog.py: the constructions of Catalog in one process.  Connections are     *)
(* numbered in the order sqlite3.connect returned them; db.paths[k] is the       *)
(* database of the k-th, db.open the connections not closed, db.conn the one     *)
(* self.conn refers to, db.held the ones a caller still refers to (through a     *)
(* cursor or the delegated attributes of catalog.py:61-65).                      *)

DbRunning == db.mode = "on"

DbPaths == {"DEFAULT_DB_PATH", "other.sqlite"}

\* catalog.py:46-59: Catalog(db_path).  __new__ creates the instance on the first
\* construction and returns it on every later one; __init__ then runs on it every
\* time: sqlite3.connect opens a connection and self.conn is rebound to it; the
\* connection self.conn referred to before is not closed
NewCatalog ==
    /\ DbRunning
    /\ Len(db.paths) < MaxConstructions
    /\ \E db_path \in DbPaths :
         db' = [db EXCEPT !.instances = IF @ = 0 THEN 1 ELSE @,
                          !.paths = Append(@, db_path),
                          !.conn = Len(db.paths) + 1,
                          !.open = @ \cup {Len(db.paths) + 1}]
    /\ UNCHANGED <<imgdates, files_orig, faulty, dest, task, result, destAtStart, run,
                   destAfterRun1, parallel, tw, cmp, pn, cat, hc, destInit, cp>>

\* a caller takes a cursor of the catalog (catalog.py:61-65 hands out
\* self.conn.cursor): the cursor refers to the connection
TakeCursor ==
    /\ DbRunning
    /\ db.conn # 0
    /\ db.conn \notin db.held
    /\ db' = [db EXCEPT !.held = @ \cup {db.conn}]
    /\ UNCHANGED <<imgdates, files_orig, faulty, dest, task, result, destAtStart, run,
                   destAfterRun1, parallel, tw, cmp, pn, cat, hc, destInit, cp>>

\* the caller drops a cursor
DropCursor ==
    /\ DbRunning
    /\ \E k \in db.held : db' = [db EXCEPT !.held = @ \ {k}]
    /\ UNCHANGED <<imgdates, files_orig, faulty, dest, task, result, destAtStart, run,
                   destAfterRun1, parallel, tw, cmp, pn, cat, hc, destInit, cp>>

\* the garbage collector, whenever it runs, finalizes a connection nothing refers
\* to, and sqlite3 closes a connection that is finalized
CollectConnection ==
    /\ DbRunning
    /\ \E k \in db.open \ (db.held \cup {db.conn}) : db' = [db EXCEPT !.open = @ \ {k}]
    /\ UNCHANGED <<imgdates, files_orig, faulty, dest, task, result, destAtStart, run,
                   destAfterRun1, parallel, tw, cmp, pn, cat, hc, destInit, cp>>

\* a fresh process: Catalog._instance is None and no connection was made
InitSingleton ==
    /\ db = [mode |-> "on", instances |-> 0, paths |-> <<>>, conn |-> 0,
             open |-> {}, held |-> {}]
    /\ imgdates = <<>>
    /\ files_orig = <<>>
    /\ dest = <<>>
    /\ task = <<>>
    /\ result = NewResult
    /\ faulty = FALSE
    /\ destAtStart = <<>>
    /\ run = 1
    /\ destAfterRun1 = <<>>
    /\ parallel = FALSE
    /\ cp = IdleCp
    /\ destInit = NoTree
    /\ tw = IdleTw
    /\ cmp = IdleCmp
    /\ pn = IdlePn
    /\ cat = IdleCat
    /\ hc = IdleHc

NextSingleton == NewCatalog \/ TakeCursor \/ DropCursor \/ CollectConnection

SpecSingleton == InitSingleton /\ [][NextSingleton]_vars

-----------------------------------------------------------------------------
(* copies.py: the plain loop as a function of the trees it starts from, in an    *)
(* environment that fails no filesystem call                                    *)

\* copies.py:201-206: the rename loop from its k-th turn, destin_fpath being the
\* last name found occupied
RECURSIVE RenameLoop(_, _, _, _)
RenameLoop(fs, destin_fpath, c, k) ==
    IF k >= MAX_RENAME_ALLOWED
    THEN [status |-> "ERROR", destin_fpath |-> NoPath, fs |-> fs]
    ELSE LET next == NextName(destin_fpath)
         IN IF next \notin DOMAIN fs
            THEN [status |-> "RENAMED", destin_fpath |-> next,
                  fs |-> WriteFile(fs, next, c)]
            ELSE RenameLoop(fs, next, c, k + 1)

\* copies.py:192-206: _copy_file_task of an origin file of content c, on the tree fs
_copy_file_task(fs, origin_fpath, c, destin_path) ==
    LET destin_fpath == Join(destin_path, origin_fpath.name)
    IN IF destin_fpath \notin DOMAIN fs
       THEN [status |-> "SUCCESS", destin_fpath |-> destin_fpath,
             fs |-> WriteFile(fs, destin_fpath, c)]
       ELSE IF compare_stream(c, fs[destin_fpath], CHUNK_SIZE, FALSE)
       THEN [status |-> "EXISTING", destin_fpath |-> destin_fpath, fs |-> fs]
       ELSE RenameLoop(fs, destin_fpath, c, 0)

\* copies.py:235-247: _copy_imgdates over the first n items of the dict, from the
\* tree fs: the outcome of each file, in the order of the dict, and the tree left
RECURSIVE _copy_imgdates(_, _)
_copy_imgdates(fs, n) ==
    IF n = 0 THEN [out |-> <<>>, fs |-> fs]
    ELSE LET before == _copy_imgdates(fs, n - 1)
             r == _copy_file_task(before.fs, origin_of(n), files_orig[origin_of(n)],
                                  _get_target_path(imgdates[n].datestamp))
         IN [out |-> Append(before.out,
                            [status |-> r.status, destin_fpath |-> r.destin_fpath]),
             fs |-> r.fs]

\* the function above is what the steps of the plain loop come to
PlainLoopIsFunction ==
    (~parallel /\ AllRecorded /\ \A j \in Tasks : task[j].fault = "none")
    => LET seq == _copy_imgdates(destInit, NumOrigin)
       IN /\ dest = seq.fs
          /\ \A i \in Tasks : /\ task[i].status = seq.out[i].status
                              /\ task[i].destin_fpath = seq.out[i].destin_fpath

-----------------------------------------------------------------------------
(* copies.py: copy_photographs around its copy loop, and config.py: the marker   *)
(* file LAST_DATE_PATH.  A datetime is a record [day, hour]; the marker file is  *)
(* a record [exists, text], its text a sequence of the ISO dates it spells: one  *)
(* when write_date wrote it, none when the file is empty.                        *)

CpRunning == cp.mode = "on"

\* config.py:46-47: datetime.now().date().isoformat(): the text of the day, the
\* time of day dropped
isoformat(now) == <<now.day>>

\* config.py:44-48: write_date() at the moment `now`
write_date(now) == [exists |-> TRUE, text |-> isoformat(now)]

\* config.py:74, 102: process_after of the configuration
process_after == [day |-> 0, hour |-> 0]

\* mutant: the marker is not looked at
first_date_of_configuration(auto_date, include_first, marker) ==
    IF include_first THEN process_after
    ELSE [process_after EXCEPT !.day = @ + 1]

\* config.py:38-42, 85-94: DateConfig.first_date: with auto_date, the datetime
\* read_date() parses from the first line of the marker, midnight of its day; when
\* the file is missing (FileNotFoundError) or its line is no date (ValueError), or
\* without auto_date, process_after, plus a day unless include_first
first_date(auto_date, include_first, marker) ==
    IF auto_date /\ marker.exists /\ Len(marker.text) = 1
    THEN [day |-> marker.text[1], hour |-> 0]
    ELSE IF include_first THEN process_after
    ELSE [process_after EXCEPT !.day = @ + 1]

\* copies.py:333-337: the copy loop has returned its CopyResult; report() prints it
Report ==
    /\ CpRunning
    /\ cp.pc = "copy"
    /\ AllRecorded
    /\ cp' = [cp EXCEPT !.pc = "reported",
                        !.reported = Len(result.successful) + Len(result.existing)
                                       + Len(result.renamed) + Len(result.unsuccessful)]
    /\ UNCHANGED <<imgdates, files_orig, faulty, dest, task, result, destAtStart, run,
                   destAfterRun1, parallel, tw, cmp, pn, cat, hc, db, destInit>>

RunDays == {1, 2}
Hours == {0, 13}

\* copies.py:338-339: if cfg.date.auto_date: write_date(); copy_photographs returns
WriteMarker ==
    /\ CpRunning
    /\ cp.pc = "reported"
    /\ IF cp.auto_date
       THEN \E now \in [day : RunDays, hour : Hours] :
              cp' = [cp EXCEPT !.pc = "returned", !.marker = write_date(now),
                               !.wrote = <<now>>]
       ELSE cp' = [cp EXCEPT !.pc = "returned"]
    /\ UNCHANGED <<imgdates, files_orig, faulty, dest, task, result, destAtStart, run,
                   destAfterRun1, parallel, tw, cmp, pn, cat, hc, db, destInit>>

\* copies.py:143: the next copy_photographs calls get_filepaths, which reads
\* cfg.date.first_date
StartNextRun ==
    /\ CpRunning
    /\ cp.pc = "returned"
    /\ cp' = [cp EXCEPT !.pc = "next_run",
                        !.first_date = <<first_date(cp.auto_date, cp.include_first,
                                                    cp.marker)>>]
    /\ UNCHANGED <<imgdates, files_orig, faulty, dest, task, result, destAtStart, run,
                   destAfterRun1, parallel, tw, cmp, pn, cat, hc, db, destInit>>

\* the marker file a run may find: none, an empty one, one of an earlier run
Markers == {[exists |-> FALSE, text |-> <<>>], [exists |-> TRUE, text |-> <<>>],
            [exists |-> TRUE, text |-> <<0>>]}

MarkerTrees == {InitialDest(p, 0, cb) : p \in 0..1, cb \in Contents}

\* copy_photographs has listed the files and is about to run its copy loop, the
\* plain one or the pool, on origin files of one filename; the environment may
\* fail the filesystem calls of the placements of the plain loop
InitMarker ==
    /\ \E nms \in [1..NumOrigin -> {NameA}], ds \in OriginDates :
         imgdates = [i \in 1..NumOrigin |->
                        [origin_fpath |-> Join(OriginDir(i), nms[i]),
                         datestamp |-> ds[i]]]
    /\ files_orig \in [{imgdates[i].origin_fpath : i \in 1..NumOrigin} -> Contents]
    /\ dest \in MarkerTrees
    /\ parallel \in BOOLEAN
    /\ task = [i \in 1..NumOrigin |-> NewTask]
    /\ result = NewResult
    /\ faulty = ~parallel
    /\ destAtStart = [i \in 1..NumOrigin |-> dest]
    /\ run = 1
    /\ destAfterRun1 = dest
    /\ \E auto_date \in BOOLEAN, include_first \in BOOLEAN, marker \in Markers :
         cp = [mode |-> "on", pc |-> "copy", auto_date |-> auto_date,
               include_first |-> include_first, marker |-> marker, reported |-> 0,
               wrote |-> <<>>, first_date |-> <<>>]
    /\ destInit = dest
    /\ db = IdleDb
    /\ hc = IdleHc
    /\ tw = IdleTw
    /\ cmp = IdleCmp
    /\ pn = IdlePn
    /\ cat = IdleCat

NextMarker == Next \/ Report \/ WriteMarker \/ StartNextRun

SpecMarker == InitMarker /\ [][NextMarker]_vars

-----------------------------------------------------------------------------
(* Properties of the placement *)

Finished(i) == task[i].pc \in {"returned", "recorded"}

\* the name A_x<kk>.j written out digit by digit (k < 256)
RenamedA(k) == <<"A", "_", "x", HexDigits[(k \div 16) + 1], HexDigits[(k % 16) + 1],
                 ".", "j">>

BucketOf(i) == _get_target_path(imgdates[i].datestamp)

Content(i) == files_orig[origin_of(i)]

\* file i's placement saw no filesystem fault
NoFault(i) == task[i].fault = "none"

\* the tree fs holds, in directory dir, the names A, A_x01 .. A_x<n>, each with a
\* content other than c
OccupiedThrough(fs, dir, n, c) ==
    /\ Join(dir, NameA) \in DOMAIN fs
    /\ fs[Join(dir, NameA)] # c
    /\ \A k \in 1..n : /\ Join(dir, RenamedA(k)) \in DOMAIN fs
                       /\ fs[Join(dir, RenamedA(k))] # c

\* C1: in sequential mode no step of any placement changes or replaces a file that
\* is present in the destination: every path that exists before a step exists
\* after it with the same content (a copy only ever lands on a path that was free).
C1_NoOverwrite ==
    [][\A q \in DOMAIN dest : q \in DOMAIN dest' /\ dest'[q] = dest[q]]_vars

\* C1 witness: two origin files of the same filename, bucket and different content
\* have both been placed, the second under a renamed name, the first one's copy intact.
C1_Witness ==
    /\ ~parallel
    /\ \E i, j \in Tasks :
         /\ i < j
         /\ origin_of(i).name = origin_of(j).name
         /\ BucketOf(i) = BucketOf(j)
         /\ Content(i) # Content(j)
         /\ task[i].status = "SUCCESS" /\ task[j].status = "RENAMED"
         /\ task[j].pc = "recorded"
         /\ dest[task[i].destin_fpath] = Content(i)
         /\ dest[task[j].destin_fpath] = Content(j)

\* the number of entries of the four result lists that are about origin file i
Listed(i, list) ==
    Cardinality({n \in 1..Len(list) : list[n][1] = origin_of(i)})

ListOf(status) ==
    CASE status = "SUCCESS"  -> result.successful
      [] status = "EXISTING" -> result.existing
      [] status = "RENAMED"  -> result.renamed
      [] status = "ERROR"    -> result.unsuccessful
      [] OTHER -> <<>>

TotalListed ==
    Len(result.successful) + Len(result.existing) + Len(result.renamed)
        + Len(result.unsuccessful)

\* the guards of the steps of file i: CheckExists once the file is scheduled, the
\* other steps at their position
CanStep(i) ==
    \/ task[i].pc = "start" /\ Scheduled(i)
    \/ task[i].pc \in {"copy", "compare", "rename", "copy_renamed", "returned"}

\* the guards above are when a step of Next is enabled
CanStepIsEnabled == (\E i \in Tasks : CanStep(i)) <=> ENABLED Next

\* C2: every placed origin file has exactly one of the four outcomes and exactly
\* one entry, in the list of that outcome; a file still to place has none; the loop
\* can always go on until every file is recorded (an ERROR does not stop it), and
\* then the four lists hold as many entries as there are origin files.
C2_OneOutcomeEach ==
    /\ \A i \in Tasks :
         /\ Finished(i) => task[i].status \in Statuses
         /\ task[i].pc = "recorded" =>
              /\ Listed(i, ListOf(task[i].status)) = 1
              /\ Listed(i, result.successful) + Listed(i, result.existing)
                   + Listed(i, result.renamed) + Listed(i, result.unsuccessful) = 1
         /\ task[i].pc # "recorded" =>
              Listed(i, result.successful) + Listed(i, result.existing)
                   + Listed(i, result.renamed) + Listed(i, result.unsuccessful) = 0
    /\ ~AllRecorded => \E i \in Tasks : CanStep(i)
    /\ AllRecorded => TotalListed = Len(imgdates)

\* C2 witness: the run is over, the first file ended in ERROR and a later one did not.
C2_Witness ==
    /\ AllRecorded
    /\ task[1].status = "ERROR"
    /\ \E j \in Tasks : j > 1 /\ task[j].status \in {"SUCCESS", "RENAMED", "EXISTING"}
    /\ TotalListed = Len(imgdates)
    /\ Len(result.unsuccessful) >= 1

\* C3 (as claimed): during and after a second fault-free run over the same origin
\* tree, the destination is exactly what the first run left.
C3_RerunIdempotent == run = 2 => dest = destAfterRun1

\* C4 (as claimed): with A, A_x01 .. A_x13 (20 slots) occupied by other contents, a
\* fault-free placement of A ends in ERROR "Too many rename attempts" and copies nothing.
C4_TwentySlots ==
    \A i \in Tasks :
        ( /\ Finished(i) /\ NoFault(i) /\ ~parallel
          /\ origin_of(i).name = NameA
          /\ OccupiedThrough(destAtStart[i], BucketOf(i), 19, Content(i)) )
        => ( /\ task[i].status = "ERROR"
             /\ task[i].exc = RenameExhausted
             /\ task[i].pc = "returned" => dest = destAtStart[i] )

\* C4 (amended): with A, A_x01 .. A_x14 (21 slots: the bare name and the 20 names
\* the loop tries) occupied by other contents, a fault-free placement of A ends in
\* ERROR with RuntimeError "Too many rename attempts" and copies nothing.
C4_TwentyOneSlots ==
    \A i \in Tasks :
        ( /\ Finished(i) /\ NoFault(i) /\ ~parallel
          /\ origin_of(i).name = NameA
          /\ OccupiedThrough(destAtStart[i], BucketOf(i), 20, Content(i)) )
        => ( /\ task[i].status = "ERROR"
             /\ task[i].exc = RenameExhausted
             /\ task[i].destin_fpath = NoPath
             /\ task[i].pc = "returned" => dest = destAtStart[i] )

\* C4 witness: a placement that met the 21 occupied slots has ended that way.
C4_Witness ==
    \E i \in Tasks :
        /\ task[i].pc = "returned" /\ NoFault(i)
        /\ origin_of(i).name = NameA
        /\ OccupiedThrough(destAtStart[i], BucketOf(i), 20, Content(i))
        /\ task[i].exc = RenameExhausted
        /\ dest = destAtStart[i]

\* C5: origin A, the bucket holding a different-content A (and A_x01 free), no
\* fault: the placement returns RENAMED with the name A_x01, whose counter decodes
\* to 1, the copy holds the origin's content, and the A already there is untouched.
C5_RenamedToCounterOne ==
    \A i \in Tasks :
        LET old == Join(BucketOf(i), NameA)
            new == Join(BucketOf(i), RenamedA(1))
        IN ( /\ Finished(i) /\ NoFault(i) /\ ~parallel
             /\ origin_of(i).name = NameA
             /\ old \in DOMAIN destAtStart[i]
             /\ destAtStart[i][old] # Content(i)
             /\ new \notin DOMAIN destAtStart[i] )
           => ( /\ task[i].status = "RENAMED"
                /\ task[i].destin_fpath = new
                /\ from_path(task[i].destin_fpath).counter = 1
                /\ dest[new] = Content(i)
                /\ dest[old] = destAtStart[i][old]
                /\ \A q \in DOMAIN destAtStart[i] : dest[q] = destAtStart[i][q] )

\* C5 witness: such a placement has returned RENAMED at A_x01.
C5_Witness ==
    \E i \in Tasks :
        /\ Finished(i) /\ NoFault(i)
        /\ origin_of(i).name = NameA
        /\ Join(BucketOf(i), NameA) \in DOMAIN destAtStart[i]
        /\ destAtStart[i][Join(BucketOf(i), NameA)] # Content(i)
        /\ task[i].status = "RENAMED"
        /\ task[i].destin_fpath = Join(BucketOf(i), RenamedA(1))

\* C6: origin file and a byte-identical file of its name in the bucket, no fault: the
\* placement returns EXISTING with that file's path and the destination tree, names
\* and contents, is what it was when the placement started.
C6_ExistingNoWrite ==
    \A i \in Tasks :
        LET old == Join(BucketOf(i), origin_of(i).name)
        IN ( /\ Finished(i) /\ NoFault(i) /\ ~parallel
             /\ old \in DOMAIN destAtStart[i]
             /\ destAtStart[i][old] = Content(i) )
           => ( /\ task[i].status = "EXISTING"
                /\ task[i].destin_fpath = old
                /\ task[i].pc = "returned" => dest = destAtStart[i] )

\* C6 witness: a placement that met a byte-identical file has returned EXISTING.
C6_Witness ==
    \E i \in Tasks :
        /\ task[i].pc = "returned" /\ NoFault(i)
        /\ Join(BucketOf(i), origin_of(i).name) \in DOMAIN destAtStart[i]
        /\ destAtStart[i][Join(BucketOf(i), origin_of(i).name)] = Content(i)
        /\ task[i].status = "EXISTING"
        /\ dest = destAtStart[i]

\* C7 (as claimed): a placement that met a filesystem fault at any step (existence
\* check, comparison, copy) ends in ERROR carrying the exception of that step, and
\* has copied nothing.
C7_FaultEndsInError ==
    \A i \in Tasks :
        (Finished(i) /\ ~NoFault(i) /\ ~parallel)
        => ( /\ task[i].status = "ERROR"
             /\ task[i].exc = OSErrorAt(task[i].fault)
             /\ task[i].pc = "returned" => dest = destAtStart[i] )

\* C8 (as claimed): under the process pool, two origin files of the same filename
\* and bucket and of different contents, once both placed, are both present in the
\* destination, under distinct names.
C8_BothContentsKept ==
    \A i, j \in Tasks :
        ( /\ parallel /\ i # j
          /\ Finished(i) /\ Finished(j)
          /\ origin_of(i).name = origin_of(j).name
          /\ BucketOf(i) = BucketOf(j)
          /\ Content(i) # Content(j) )
        => \E q, r \in DOMAIN dest :
              /\ q # r
              /\ q.parent = BucketOf(i) /\ r.parent = BucketOf(i)
              /\ dest[q] = Content(i) /\ dest[r] = Content(j)

-----------------------------------------------------------------------------
(* Properties of the twin resolvers *)

\* the contents of a TwinSet, order aside: its (origin, twin) pairs
TwinPairs(twins) ==
    UNION {{<<r, twins[r][n]>> : n \in 1..Len(twins[r])} : r \in DOMAIN twins}

\* C9 (as claimed): when both resolvers have returned for the same lists, filter
\* choice and comparator, their TwinSets hold the same (origin, twin) pairs.
C9_SameTwinSet ==
    (TwRunning /\ tw.seq_pc = "done" /\ tw.par_pc = "done")
    => TwinPairs(tw.seq_twins) = TwinPairs(tw.par_twins)

\* the pairs the pool was handed
Submitted ==
    LET cands == Candidates(tw.paths1, tw.paths2, tw.filtered)
        pairs == ParPairs(tw.paths1, cands)
    IN {pairs[n] : n \in 1..Len(pairs)}

\* C10 (as claimed): when the comparator raises for exactly one of the N >= 2 pairs
\* handed to the pool, the parallel resolver is not aborted: it ends having
\* returned, its TwinSet holding exactly the content-identical pairs among the
\* other N-1 and not the failing pair.
C10_OneRaiseIsIsolated ==
    ( /\ TwRunning
      /\ tw.par_pc \in {"done", "raised"}
      /\ tw.par_exc # "KeyError"
      /\ tw.submitted >= 2
      /\ Cardinality(tw.raising \cap Submitted) = 1 )
    => ( /\ tw.par_pc = "done"
         /\ TwinPairs(tw.par_twins) =
              {pr \in Submitted \ tw.raising : pr[1].content = pr[2].content} )

\* C11 (as claimed): with a comparator that never raises, find_twins_parallel ends
\* having returned a TwinSet, whatever the lists; an origin file without any
\* candidate has no entry, or an empty one, in it.
C11_ParallelReturns ==
    ( /\ TwRunning
      /\ tw.raising = {}
      /\ tw.par_pc \in {"done", "raised"} )
    => ( /\ tw.par_pc = "done"
         /\ \A n \in 1..Len(tw.paths1) :
               LET r == tw.paths1[n]
               IN (\A m \in 1..Len(tw.paths2) : ~FUN_FILTER(r, tw.paths2[m]))
                  => (r \notin DOMAIN tw.par_twins \/ tw.par_twins[r] = <<>>) )

-----------------------------------------------------------------------------
(* Properties of the content comparators *)

\* C12 (as claimed): a call of compare_stream or compare_hash on two files of
\* different size, in an environment that fails no filesystem call, ends returning
\* false, having opened neither file and read nothing.
C12_SizeShortCircuit ==
    (CmpOver /\ cmp.fault = "none" /\ Len(cmp.c1) # Len(cmp.c2))
    => ( /\ cmp.pc = "returned"
         /\ cmp.out = FALSE
         /\ cmp.opened = {}
         /\ cmp.reads = 0 )

\* C13 (as claimed): a call of compare_stream during which a file was missing or
\* unreadable ends in a failure its caller can tell from "not identical": it does
\* not return false.
C13_FailureReported ==
    (CmpOver /\ cmp.alg = "stream" /\ cmp.hit # "none")
    => ~(cmp.pc = "returned" /\ cmp.out = FALSE)

-----------------------------------------------------------------------------
(* Properties of the naming scheme *)

\* C14 (as claimed): for every file path p, the PhotoPath decoded from the encoded
\* path of from_path(p) has the stem and the counter of from_path(p).
C14_DecodeEncodeDecode ==
    (PnRunning /\ pn.pc = "redecoded" /\ pn.nexts = 0)
    => (pn.rt.stem = pn.pp.stem /\ pn.rt.counter = pn.pp.counter)

\* C15 (as claimed, for the names that have an extension): for every PhotoPath
\* obtained from a decoded name by applying next any number of times, from_path of
\* its encoded path gives back its stem and its counter.
C15_EncodeDecode ==
    (PnRunning /\ pn.pc = "redecoded" /\ pn.pp.suffix # <<>>)
    => (pn.rt.stem = pn.pp.stem /\ pn.rt.counter = pn.pp.counter)

-----------------------------------------------------------------------------
(* Properties of find_files_with_copy *)

\* the TwinSet find_files_with_copy was handed
FwcTwins == IF tw.fwc_parallel THEN tw.par_twins ELSE tw.seq_twins

\* C16 (as claimed): every path find_files_with_copy returns is the path of an
\* origin file as enumerated, and the path of an enumerated origin file is returned
\* exactly when that file's TwinSet entry is non-empty.
C16_ExactlyFilesWithTwin ==
    (TwRunning /\ tw.fwc_pc = "returned")
    => LET returned == {tw.with_copy[n] : n \in 1..Len(tw.with_copy)}
       IN /\ \A q \in returned : \E k \in 1..Len(tw.paths1) : tw.paths1[k].path = q
          /\ \A k \in 1..Len(tw.paths1) :
                (tw.paths1[k].path \in returned)
                <=> ( /\ tw.paths1[k] \in DOMAIN FwcTwins
                      /\ FwcTwins[tw.paths1[k]] # <<>> )

-----------------------------------------------------------------------------
(* Properties of the catalog *)

SeqSet(q) == {q[n] : n \in 1..Len(q)}

\* a sequence of groups as the set of its groups, each the set of its paths
GroupSets(groups) == {SeqSet(g) : g \in SeqSet(groups)}

\* no group twice in the sequence, no path twice in a group
NoRepeat(groups) ==
    /\ Len(groups) = Cardinality(GroupSets(groups))
    /\ \A g \in SeqSet(groups) : Len(g) = Cardinality(SeqSet(g))

\* the paths the Hash table records with hash h
PathsOfHash(h) == {r[1] : r \in {x \in SeqSet(cat.Hash) : x[2] = h}}

\* the groups of paths sharing one hash, and those of them with two members or more
HashGroups == {PathsOfHash(r[2]) : r \in SeqSet(cat.Hash)}
DuplicateGroups == {g \in HashGroups : Cardinality(g) >= 2}

\* the directory is a prefix of the path made of whole path components
LiesUnder(path, dir) ==
    /\ Len(dir) <= Len(path)
    /\ SubSeq(path, 1, Len(dir)) = dir
    /\ \/ Len(path) = Len(dir)
       \/ path[Len(dir) + 1] = "/"
       \/ (dir # <<>> /\ dir[Len(dir)] = "/")

ArchiveDirs == {d[1] : d \in {x \in SeqSet(cat.Directories) : x[2] = "ARCHIVE"}}

\* C17: find_duplicates(grouped=True) returns exactly the groups of paths that share
\* one hash and have two members or more, each once, so that a path whose hash
\* another path shares is in exactly one group and no group is a singleton;
\* grouped=False returns the paths of those groups, each once.
C17_DuplicateGroups ==
    (CatRunning /\ cat.call = "find_duplicates")
    => IF cat.grouped
       THEN /\ GroupSets(cat.out) = DuplicateGroups
            /\ NoRepeat(cat.out)
            /\ \A r \in SeqSet(cat.Hash) :
                  Cardinality({n \in 1..Len(cat.out) : r[1] \in SeqSet(cat.out[n])})
                     = IF Cardinality(PathsOfHash(r[2])) >= 2 THEN 1 ELSE 0
       ELSE /\ SeqSet(cat.out) = UNION DuplicateGroups
            /\ Len(cat.out) = Cardinality(UNION DuplicateGroups)

\* C17 witness: on the records (p1,h1), (p2,h1), (p3,h2) the grouped query returned
\* the single group of p1 and p2.
C17_Witness ==
    /\ CatRunning
    /\ cat.call = "find_duplicates"
    /\ cat.grouped
    /\ cat.Hash = <<<<PathA1, "h1">>, <<PathAb1, "h1">>, <<PathB1, "h2">>>>
    /\ cat.out = <<<<PathA1, PathAb1>>>>

\* C18 (as claimed): find_idle(grouped=True) returns a hash group exactly when none
\* of its paths lies under a directory tagged ARCHIVE, lying under a directory
\* meaning that the directory is a prefix of the path made of whole components.
C18_IdleByComponents ==
    (CatRunning /\ cat.call = "find_idle" /\ cat.grouped)
    => GroupSets(cat.out) =
         {g \in HashGroups : \A q \in g, d \in ArchiveDirs : ~LiesUnder(q, d)}

\* C19: with no directory tagged ARCHIVE, find_idle returns, its result holds every
\* duplicate group (every path of one, when flattened), and it has emitted the
\* warning.
C19_NoArchiveWarns ==
    (CatRunning /\ cat.call = "find_idle" /\ ArchiveDirs = {})
    => /\ cat.warned
       /\ IF cat.grouped
          THEN DuplicateGroups \subseteq GroupSets(cat.out)
          ELSE (UNION DuplicateGroups) \subseteq SeqSet(cat.out)

\* C19 witness: find_idle has returned a duplicate group, with the warning, on a
\* database that has a directory, none tagged ARCHIVE.
C19_Witness ==
    /\ CatRunning
    /\ cat.call = "find_idle"
    /\ cat.grouped
    /\ cat.Directories # <<>>
    /\ ArchiveDirs = {}
    /\ DuplicateGroups # {}
    /\ DuplicateGroups \subseteq GroupSets(cat.out)
    /\ cat.warned

\* C20: after any sequence of add("Hash", entries) calls the Hash table holds at
\* most one record per path.
C20_OneRecordPerPath ==
    CatRunning
    => \A n, m \in 1..Len(cat.Hash) : n # m => cat.Hash[n][1] # cat.Hash[m][1]

\* C20 witness: an add call was given a record for a path the table held already
\* (or held by an earlier entry of the call), and the table holds one record for it.
C20_Witness ==
    /\ CatRunning
    /\ cat.call = "add"
    /\ cat.adds = 2
    /\ cat.ignored > 0
    /\ Cardinality({n \in 1..Len(cat.Hash) : cat.Hash[n][1] = PathA1}) = 1

-----------------------------------------------------------------------------
(* Further properties of the placement *)

\* the names the rename loop tries for file i: those of the MAX_RENAME_ALLOWED
\* counters after the counter of the bare destination name
AttemptedNames(i) ==
    LET pp == from_path(BareCopyTarget(i))
    IN {pp_path([pp EXCEPT !.counter = @ + n]) : n \in 1..MAX_RENAME_ALLOWED}

\* the steps file i has still to take, at most: one to record the result, one
\* copy, one turn of the loop per attempt left and the turn that finds it exhausted,
\* the comparison, the first existence check
StepsLeft(t) ==
    CASE t.pc = "recorded"     -> 0
      [] t.pc = "returned"     -> 1
      [] t.pc = "copy"         -> 2
      [] t.pc = "copy_renamed" -> 2
      [] t.pc = "rename"       -> (MAX_RENAME_ALLOWED - t.k) + 3
      [] t.pc = "compare"      -> MAX_RENAME_ALLOWED + 4
      [] t.pc = "start"        -> MAX_RENAME_ALLOWED + 5

RECURSIVE TotalStepsLeft(_, _)
TotalStepsLeft(tasks, n) ==
    IF n = 0 THEN 0 ELSE StepsLeft(tasks[n]) + TotalStepsLeft(tasks, n - 1)

\* C21: every placement terminates: each step of a run lowers the number of steps
\* left, a natural number, so a run has no more than NumOrigin times
\* MAX_RENAME_ALLOWED + 5 steps (and by C2 a step can be taken until every file is
\* recorded); a placement makes at most MAX_RENAME_ALLOWED rename attempts; one that
\* returns the RuntimeError of the exhausted loop found every attempted name
\* occupied, returns ERROR without a destination, its error is not of the OSError
\* family, and it has copied nothing.
C21_BoundedRenameLoop ==
    /\ [](\A i \in Tasks :
            /\ task[i].k <= MAX_RENAME_ALLOWED
            /\ (Finished(i) /\ task[i].exc = RenameExhausted)
               => ( /\ task[i].status = "ERROR"
                    /\ task[i].destin_fpath = NoPath
                    /\ task[i].exc.type # "OSError"
                    /\ \A s \in {"exists", "compare", "copy"} :
                          task[i].exc # OSErrorAt(s)
                    /\ AttemptedNames(i) \subseteq DOMAIN destAtStart[i]
                    /\ task[i].pc = "returned" => dest = destAtStart[i] ))
    /\ [][TotalStepsLeft(task', NumOrigin) < TotalStepsLeft(task, NumOrigin)]_vars

\* C21 witness: a run is over in which a placement exhausted the rename loop.
C21_Witness ==
    /\ AllRecorded
    /\ \E i \in Tasks :
         /\ task[i].exc = RenameExhausted
         /\ task[i].status = "ERROR"
         /\ AttemptedNames(i) \subseteq DOMAIN dest

-----------------------------------------------------------------------------
(* Further properties of the content comparators *)

\* C22: a call of compare_stream on two readable files, with any chunk size of at
\* least 1, returns true exactly when the two files have the same bytes; when it
\* returns false, every chunk before the last one read was the same in both files
\* and the last one differs (one of them is shorter or empty when a file has
\* ended); when it returns true, the last read found both files at their end.
C22_StreamEqualsContent ==
    (CmpOver /\ cmp.alg = "stream" /\ cmp.fault = "none" /\ cmp.chunk_size >= 1)
    => ( /\ cmp.pc = "returned"
         /\ cmp.out = (cmp.c1 = cmp.c2)
         /\ cmp.out = FALSE
            => ( /\ cmp.pos <= Min(Len(cmp.c1), Len(cmp.c2))
                 /\ SubSeq(cmp.c1, 1, cmp.pos) = SubSeq(cmp.c2, 1, cmp.pos)
                 /\ Read(cmp.c1, cmp.pos, cmp.chunk_size)
                      # Read(cmp.c2, cmp.pos, cmp.chunk_size) )
         /\ cmp.out = TRUE
            => ( /\ cmp.pos >= Len(cmp.c1)
                 /\ cmp.pos >= Len(cmp.c2)
                 /\ Read(cmp.c1, cmp.pos, cmp.chunk_size) = <<>>
                 /\ Read(cmp.c2, cmp.pos, cmp.chunk_size) = <<>> ) )

\* C22 witness: a call with chunk size 1 on files of different lengths came to the
\* end of the shorter one after a chunk that was the same, and returned false
C22_Witness ==
    /\ CmpOver
    /\ cmp.alg = "stream"
    /\ cmp.fault = "none"
    /\ cmp.chunk_size = 1
    /\ Len(cmp.c1) # Len(cmp.c2)
    /\ cmp.pos >= 1
    /\ cmp.out = FALSE

\* C23: in one process, over any sequence of compare_hash calls (files rewritten
\* between calls and failing opens and reads included), calculate_file_hash reads
\* no path to its end more than once, and when no open or read fails it opens no
\* path more than once; a path whose digest is stored keeps that entry unchanged
\* at every step, and a comparison that returns answers from the stored digests.
C23_HashedOncePerPath ==
    /\ [](HcRunning =>
            /\ \A p \in HcPaths :
                 /\ hc.reads[p] <= 1
                 /\ ~hc.faulty => hc.opens[p] <= 1
                 /\ hc.reads[p] = 1 <=> p \in DOMAIN hc.cache
            /\ (hc.pc = "idle" /\ hc.out \in {"True", "False"})
               => (hc.out = "True" <=> hc.cache[hc.file1] = hc.cache[hc.file2]))
    /\ [][HcRunning =>
            \A p \in DOMAIN hc.cache :
              p \in DOMAIN hc'.cache /\ hc'.cache[p] = hc.cache[p]]_vars

\* C23 witness: a second call returned with a path of the first call among its
\* arguments, after that file was rewritten: the stored digest is not the digest
\* of the file any more, and the path has been read once
C23_Witness ==
    /\ HcRunning
    /\ hc.calls = 2
    /\ hc.pc = "idle"
    /\ hc.out \in {"True", "False"}
    /\ hc.reads[hc.file1] = 1
    /\ hc.cache[hc.file1] # calculate_file_hash(hc.files[hc.file1])
    /\ \A p \in HcPaths : p \in DOMAIN hc.cache

-----------------------------------------------------------------------------
(* Properties of find_candidates *)

\* a resolver has called find_candidates on the lists it was given
CandidatesFound ==
    /\ TwRunning
    /\ tw.filtered
    /\ (tw.seq_n > 1 \/ tw.seq_pc = "done" \/ tw.par_pc # "submit")

\* C24 (as claimed): find_candidates yields at most one candidate per origin file.
C24_OneCandidatePerOrigin ==
    CandidatesFound
    => LET candidates == find_candidates(tw.paths1, tw.paths2)
       IN \A orig_path \in DOMAIN candidates : Len(candidates[orig_path]) <= 1

\* the positions of paths2 whose file passes every filter of the chain against r1
PassingPositions(r1, paths2) ==
    {n \in 1..Len(paths2) :
        LET calls == FilterCalls(1, r1, paths2[n])
        IN Len(calls) = Len(FilterChain) /\ \A k \in 1..Len(calls) : calls[k]}

-----------------------------------------------------------------------------
(* Properties of the Catalog singleton *)

\* C26 (as claimed): after any sequence of Catalog(...) constructions there is one
\* Catalog instance and one open connection, the one the instance refers to: no
\* earlier connection is left open.
C26_OneConnection ==
    (DbRunning /\ db.conn # 0)
    => (db.instances = 1 /\ db.open = {db.conn})

-----------------------------------------------------------------------------
(* Properties of the placement: the copy at the returned destination *)

-----------------------------------------------------------------------------
(* Properties of the two copy loops *)

\* no two origin files have both the same filename and the same date bucket
NoSharedNameAndBucket ==
    \A i, j \in Tasks :
        i # j => ~(origin_of(i).name = origin_of(j).name /\ BucketOf(i) = BucketOf(j))

\* C28 (as claimed): when no two origin files share a filename and a bucket, a
\* finished run of the process pool, whatever the order in which its tasks ran and
\* completed, has given every origin file the outcome and the destination path the
\* plain loop gives it from the same trees, and has left the destination tree the
\* plain loop leaves.
C28_PoolAsPlainLoop ==
    (parallel /\ AllRecorded /\ NoSharedNameAndBucket)
    => LET seq == _copy_imgdates(destInit, NumOrigin)
       IN /\ dest = seq.fs
          /\ \A i \in Tasks : /\ task[i].status = seq.out[i].status
                              /\ task[i].destin_fpath = seq.out[i].destin_fpath

-----------------------------------------------------------------------------
(* Properties of copy_photographs *)

\* C29: the marker file changes only at the step after the report, when every
\* file has been placed and recorded and the report covered as many entries as
\* there are files, and only with auto_date; a run with auto_date that returned
\* has written the marker, the date of that moment, whether or not a file ended
\* in ERROR; the first_date the next run reads is midnight of the day written.
C29_MarkerAfterReport ==
    /\ [][(CpRunning /\ cp'.marker # cp.marker)
           => ( /\ cp.pc = "reported"
                /\ cp.auto_date
                /\ AllRecorded
                /\ cp.reported = Len(imgdates)
                /\ TotalListed = Len(imgdates) )]_vars
    /\ []((CpRunning /\ cp.pc \in {"returned", "next_run"} /\ cp.auto_date)
           => ( /\ Len(cp.wrote) = 1
                /\ cp.marker.exists
                /\ cp.marker.text = <<cp.wrote[1].day>> ))
    /\ []((CpRunning /\ cp.pc = "next_run" /\ cp.auto_date)
           => cp.first_date = <<[day |-> cp.wrote[1].day, hour |-> 0]>>)

\* C29 witness: a run with auto_date in which a file ended in ERROR wrote the
\* marker in the afternoon, and the next run read midnight of that day
C29_Witness ==
    /\ CpRunning
    /\ cp.pc = "next_run"
    /\ cp.auto_date
    /\ \E i \in Tasks : task[i].status = "ERROR"
    /\ cp.wrote = <<[day |-> 2, hour |-> 13]>>
    /\ cp.first_date = <<[day |-> 2, hour |-> 0]>>

-----------------------------------------------------------------------------
(* Properties of same_name *)

\* C30 (as claimed): for every path p whose decoded counter is at most 254, the
\* PhotoPath of p and the PhotoPath decoded from the path of its next are
\* same_name; and same_name is reflexive, symmetric and transitive on the
\* PhotoPaths at hand.
C30_RenamedIsSameName ==
    (PnRunning /\ pn.pc = "redecoded" /\ pn.nexts = 1 /\ from_path(pn.p).counter <= 254)
    => LET S == {from_path(pn.p), pn.pp, pn.rt}
       IN /\ same_name(from_path(pn.p), pn.rt)
          /\ \A a \in S : same_name(a, a)
          /\ \A a, b \in S : same_name(a, b) => same_name(b, a)
          /\ \A a, b, c \in S : (same_name(a, b) /\ same_name(b, c)) => same_name(a, c)
====
